---- MODULE Spec2Model ----
(***************************************************************************)
(* Model of the syllable counter of in03/syllable:                         *)
(*   - SyllableCounter (onnx_export/python_example.py): the character      *)
(*     encoder, the post-processing of the network's raw scalar and the    *)
(*     per-text loop;                                                      *)
(*   - the network behind session.run: bidirectional recurrent layer,      *)
(*     final recurrent layer, linear output (export_to_onnx.py metadata),  *)
(*     over a small integer hidden-state domain.                           *)
(*                                                                         *)
(* Conventions.  A string is a sequence of characters; a character is a    *)
(* TLA+ string.  "Idot" is U+0130 (capital I with dot above), whose        *)
(* lowercase is the TWO characters "i" and "dot" (U+0307).  Python         *)
(* indices are 0-based, the sequences here are 1-based: Python row i is    *)
(* row i+1 here.  Raw network outputs are counted in quarters: the         *)
(* integer y stands for the float y/4 (every such value is exact in        *)
(* float32).                                                               *)
(***************************************************************************)
EXTENDS Integers, Sequences, FiniteSets, TLC

VARIABLES
    chars,        \* self.chars: the alphabet, in index order
    max_len,      \* self.max_len
    char_to_idx,  \* self.char_to_idx
    session,      \* self.session: the loaded network (its weights)
    hidden,       \* recurrent state left in the session by its last run
    before,       \* value of hidden when the current call started
    pc,           \* "idle" | "done": position of the single caller
    op,           \* the method called
    arg,          \* its argument
    ret,          \* its return value
    raw,          \* raw scalars session.run returned during the call
    trace,        \* internal steps the call executed, in order
    counters,     \* the composite counter's list of counters, in priority order
    consulted,    \* positions of the counters the composite call queried, in order
    calls,        \* per thread: the call it is executing and that call's locals
    buf,          \* the encoding buffers allocated by the threads' calls
    export,       \* export_to_onnx: its position, the files it wrote, its result
    example       \* the raw scalar handed to the three usage examples, their results

vars == <<chars, max_len, char_to_idx, session, hidden, before, pc, op, arg, ret, raw, trace,
          counters, consulted, calls, buf, export, example>>

(***************************************************************************)
(* Bounds                                                                  *)
(***************************************************************************)
\* max_word_length of the metadata (18 in the shipped model), scaled down.
MaxLen == 3
\* Longest text handed to count_text.
MaxTextLen == 6
\* Longest word handed to the composite counter.
MaxCompositeLen == 2
\* Longest alphabet a metadata file may carry.
MaxAlphabetLen == 4
\* Largest magnitude, in quarters, of the raw scalar fed to the usage examples.
RawMax == 20
\* Size of the hidden-state domain of one recurrent cell.
HMod == 2

\* Characters a caller may type: for the encoder, for count_syllables and
\* for count_text.
Chars == {"a", "A", "Idot", " ", "1"}
CountChars == {"a", "A", "Idot", " "}
TextChars == {"a", " "}

RECURSIVE SeqsUpTo(_, _)
SeqsUpTo(S, n) ==
    IF n = 0 THEN {<<>>}
    ELSE LET shorter == SeqsUpTo(S, n - 1)
         IN  shorter \cup {Append(s, c) : s \in {t \in shorter : Len(t) = n - 1}, c \in S}

\* Words reach one character past max_len, so that truncation happens.
Words == SeqsUpTo(Chars, MaxLen + 1)
CountWords == SeqsUpTo(CountChars, MaxLen + 1)
Texts == SeqsUpTo(TextChars, MaxTextLen)
CompositeWords == SeqsUpTo(Chars, MaxCompositeLen)

Min(a, b) == IF a < b THEN a ELSE b
Max(a, b) == IF a > b THEN a ELSE b

(***************************************************************************)
(* Python string primitives                                                *)
(***************************************************************************)
\* str.lower() of one character: full Unicode case mapping.
LowerChar(c) ==
    CASE c = "A"    -> <<"a">>
      [] c = "Idot" -> <<"i", "dot">>
      [] OTHER      -> <<c>>

\* str.lower()
RECURSIVE Lower(_)
Lower(w) == IF w = <<>> THEN <<>> ELSE LowerChar(Head(w)) \o Lower(Tail(w))

\* str.isspace() of one character
IsSpace(c) == c = " "

\* str.strip()
RECURSIVE LStrip(_)
LStrip(w) == IF w # <<>> /\ IsSpace(Head(w)) THEN LStrip(Tail(w)) ELSE w
RECURSIVE RStrip(_)
RStrip(w) ==
    IF w # <<>> /\ IsSpace(w[Len(w)]) THEN RStrip(SubSeq(w, 1, Len(w) - 1)) ELSE w
Strip(w) == RStrip(LStrip(w))

\* s[:n]
Prefix(s, n) == SubSeq(s, 1, Min(n, Len(s)))

(***************************************************************************)
(* SyllableCounter.__init__                                                *)
(***************************************************************************)
\* Alphabets the metadata may carry: a sample of the 28 characters
\* (apostrophe, hyphen, a-z) of the shipped model.
Alphabets == {<<"'", "a", "i">>}

\* {c: i for i, c in enumerate(self.chars)}: the last occurrence wins.
CharToIdx(cs) ==
    [c \in {cs[i] : i \in 1..Len(cs)} |->
        CHOOSE i \in 1..Len(cs) : cs[i] = c /\ \A j \in 1..Len(cs) : cs[j] = c => j <= i]

\* Alphabet configurations a metadata file may carry, duplicates and wrong
\* sizes included, and the values it may give for max_word_length.
ConfigAlphabets == SeqsUpTo({"'", "a", "i"}, MaxAlphabetLen)
ConfigMaxLens == 1..(MaxLen + 1)

\* The self the constructor builds from the metadata: it stores the
\* alphabet and max_word_length as they are and derives the index map.
construct(alphabet, maxlen, model) ==
    [chars       |-> alphabet,
     max_len     |-> maxlen,
     char_to_idx |-> CharToIdx(alphabet),
     session     |-> model]

(***************************************************************************)
(* SyllableCounter.encode_word                                             *)
(***************************************************************************)
\* np.zeros((1, max_len, len(chars)))
Zeros == [i \in 1..max_len |-> [j \in 1..Len(chars) |-> 0]]

\* Mutant: the last max_len characters are kept (word.lower()[-max_len:]).
Normalize_tail(word) ==
    LET lw == Lower(word) IN SubSeq(lw, Max(1, Len(lw) - max_len + 1), Len(lw))

\* Mutant: the word is truncated but not lowercased.
Normalize_no_lower(word) == Prefix(word, max_len)

\* word.lower()[:self.max_len]
Normalize(word) == Prefix(Lower(word), max_len)

\* Mutant: an unknown character falls back to index 0 (char_to_idx.get(char, 0)).
SetOneHot_default(encoded, i, char) ==
    IF char \in DOMAIN char_to_idx
    THEN [encoded EXCEPT ![i][char_to_idx[char]] = 1]
    ELSE [encoded EXCEPT ![i][1] = 1]

\* Mutant: the row index is off by one (encoded[0, i + 1, idx] = 1.0).
SetOneHot_shifted(encoded, i, char) ==
    IF char \in DOMAIN char_to_idx /\ i + 1 \in DOMAIN encoded
    THEN [encoded EXCEPT ![i + 1][char_to_idx[char]] = 1]
    ELSE encoded

\* One iteration of the loop: if char in char_to_idx: encoded[0, i, idx] = 1.0
SetOneHot(encoded, i, char) ==
    IF char \in DOMAIN char_to_idx
    THEN [encoded EXCEPT ![i][char_to_idx[char]] = 1]
    ELSE encoded

\* for i, char in enumerate(word), from position i on
RECURSIVE EncodeLoop(_, _, _)
EncodeLoop(encoded, word, i) ==
    IF i > Len(word) THEN encoded
    ELSE EncodeLoop(SetOneHot(encoded, i, word[i]), word, i + 1)

encode_word(word) == EncodeLoop(Zeros, Normalize(word), 1)

(***************************************************************************)
(* The network run by session.run                                          *)
(***************************************************************************)
Weight(fk, fr, fb, bk, br, bb, gk, gr, gb, ok, ob) ==
    [fwd |-> [k |-> fk, r |-> fr, b |-> fb],
     bwd |-> [k |-> bk, r |-> br, b |-> bb],
     fin |-> [k |-> gk, r |-> gr, b |-> gb],
     out |-> [k |-> ok, b |-> ob]]

\* Weight sets the model file may hold.  The output layers are chosen so
\* that the raw scalar takes negative, zero, half-integer and other values.
WeightSets ==
    { Weight(<<1, 1, 0>>, 1, 0, <<0, 1, 1>>, 1, 0, <<1, 1>>, 1, 0, 4, 10),
      Weight(<<0, 1, 1>>, 1, 1, <<1, 0, 1>>, 0, 0, <<1, 0>>, 1, 0, 8, -6),
      Weight(<<1, 0, 1>>, 0, 0, <<1, 1, 1>>, 1, 0, <<0, 1>>, 1, 1, 3, 0),
      Weight(<<1, 1, 1>>, 1, 0, <<0, 0, 1>>, 1, 1, <<1, 1>>, 0, 0, 5, 6) }

\* x . W for a step vector x and a kernel W
RECURSIVE DotFrom(_, _, _)
DotFrom(x, k, j) == IF j > Len(x) THEN 0 ELSE x[j] * k[j] + DotFrom(x, k, j + 1)
Dot(x, k) == DotFrom(x, k, 1)

\* One time step of a recurrent cell with weights w.
Cell(w, h, x) == (Dot(x, w.k) + w.r * h + w.b) % HMod

\* Mutant: a stateful layer, which starts from the state the last run left.
initial_state_stateful(prev) == prev

\* The state every pass of a run starts from; prev is what the last run left.
initial_state(prev) == 0

\* Forward cell: states after consuming steps 1..i, for every i.
RECURSIVE ForwardStates(_, _, _, _)
ForwardStates(w, xs, h, i) ==
    IF i > Len(xs) THEN <<>>
    ELSE LET h2 == Cell(w, h, xs[i]) IN <<h2>> \o ForwardStates(w, xs, h2, i + 1)

\* Backward cell: states after consuming steps Len(xs) down to i, for every i.
RECURSIVE BackwardStates(_, _, _, _)
BackwardStates(w, xs, h, i) ==
    IF i < 1 THEN <<>>
    ELSE LET h2 == Cell(w, h, xs[i]) IN BackwardStates(w, xs, h2, i - 1) \o <<h2>>

\* Mutant: the backward outputs stay in traversal order instead of being
\* put back at the time index they belong to.
Bidirectional_unaligned(w, xs, prev) ==
    LET f == ForwardStates(w.fwd, xs, initial_state(prev.fwd), 1)
        b == BackwardStates(w.bwd, xs, initial_state(prev.bwd), Len(xs))
    IN  [i \in 1..Len(xs) |-> <<f[i], b[Len(xs) + 1 - i]>>]

\* Bidirectional layer, return_sequences=True: [forward(i), backward(i)].
Bidirectional(w, xs, prev) ==
    LET f == ForwardStates(w.fwd, xs, initial_state(prev.fwd), 1)
        b == BackwardStates(w.bwd, xs, initial_state(prev.bwd), Len(xs))
    IN  [i \in 1..Len(xs) |-> <<f[i], b[i]>>]

\* session.run: the raw scalar and the state the run leaves behind.
session_run(w, encoded, prev) ==
    LET bi == Bidirectional(w, encoded, prev)
        g  == ForwardStates(w.fin, bi, initial_state(prev.fin), 1)
        n  == Len(encoded)
    IN  [y      |-> g[n] * w.out.k + w.out.b,
         hidden |-> [fwd |-> bi[n][1], bwd |-> bi[1][2], fin |-> g[n]]]

ZeroHidden == [fwd |-> 0, bwd |-> 0, fin |-> 0]

(***************************************************************************)
(* SyllableCounter.count_syllables                                         *)
(***************************************************************************)
\* Mutant: only the empty string is intercepted (if not word).
is_blank_empty_only(word) == word = <<>>

\* not word or not word.strip()
is_blank(word) == word = <<>> \/ Strip(word) = <<>>

\* Mutant: ties round up (floor(y + 0.5)).
round_half_up(y) == (y + 2) \div 4

\* round(float(y)): nearest integer, ties to the even one (y in quarters).
round(y) ==
    LET q == y \div 4
        r == y % 4
    IN  IF r < 2 THEN q
        ELSE IF r > 2 THEN q + 1
        ELSE IF q % 2 = 0 THEN q ELSE q + 1

\* Mutant: the minimum of one syllable is dropped.
postprocess_no_minimum(y) == round(y)

\* max(1, round(float(result[0][0][0])))
postprocess(y) == Max(1, round(y))

\* The whole method, as a value: what it returns, the raw scalars it got,
\* the steps it took and the state it leaves in the session.
count_syllables(word, prev) ==
    IF is_blank(word)
    THEN [ret |-> 0, raw |-> <<>>, trace |-> <<>>, hidden |-> prev]
    ELSE LET encoded == encode_word(word)
             result  == session_run(session, encoded, prev)
         IN  [ret    |-> postprocess(result.y),
              raw    |-> <<result.y>>,
              trace  |-> <<"encode_word", "session.run">>,
              hidden |-> result.hidden]

(***************************************************************************)
(* SyllableCounter.count_text                                              *)
(***************************************************************************)
\* Mutant: text.split(" "): every single space separates, empty tokens stay.
RECURSIVE SplitOnEverySpace(_, _, _, _)
SplitOnEverySpace(text, i, cur, out) ==
    IF i > Len(text) THEN Append(out, cur)
    ELSE IF IsSpace(text[i]) THEN SplitOnEverySpace(text, i + 1, <<>>, Append(out, cur))
    ELSE SplitOnEverySpace(text, i + 1, Append(cur, text[i]), out)
split_single_space(text) == SplitOnEverySpace(text, 1, <<>>, <<>>)

\* text.split(): scan the text, close a token at whitespace, drop empty ones.
RECURSIVE SplitFrom(_, _, _, _)
SplitFrom(text, i, cur, out) ==
    LET closed == IF cur = <<>> THEN out ELSE Append(out, cur)
    IN  IF i > Len(text) THEN closed
        ELSE IF IsSpace(text[i]) THEN SplitFrom(text, i + 1, <<>>, closed)
        ELSE SplitFrom(text, i + 1, Append(cur, text[i]), out)
split(text) == SplitFrom(text, 1, <<>>, <<>>)

\* [self.count_syllables(word) for word in words], from words[i] on
RECURSIVE CountEach(_, _, _)
CountEach(words, i, acc) ==
    IF i > Len(words) THEN acc
    ELSE LET r == count_syllables(words[i], acc.hidden)
         IN  CountEach(words, i + 1,
                       [ret    |-> Append(acc.ret, r.ret),
                        raw    |-> acc.raw \o r.raw,
                        trace  |-> acc.trace \o r.trace,
                        hidden |-> r.hidden])

count_text(text, prev) ==
    CountEach(split(text), 1, [ret |-> <<>>, raw |-> <<>>, trace |-> <<>>, hidden |-> prev])

(***************************************************************************)
(* Dictionary and composite counters (package syllable)                    *)
(***************************************************************************)
\* Precomputed tables: lowercase word -> positive syllable count.
DictionaryTable == (<<"a">> :> 1) @@ (<<"a", "a">> :> 2) @@ (<<"i", "dot">> :> 1)
ExtraTable == (<<"a">> :> 5) @@ (<<"a", "1">> :> 3)

Unknown == [tag |-> "Unknown", n |-> 0]

\* DictionarySyllableCounter.count: lowercase, look up, Unknown when absent.
dictionary_count(table, word) ==
    LET lw == Lower(word)
    IN  IF lw \in DOMAIN table
        THEN [tag |-> "FromDictionary", n |-> table[lw]]
        ELSE Unknown

\* One counter's answer to word, and the session state it leaves.
Query(name, word, prev) ==
    CASE name = "dictionary" ->
            [est |-> dictionary_count(DictionaryTable, word), hidden |-> prev, raw |-> <<>>]
      [] name = "extra" ->
            [est |-> dictionary_count(ExtraTable, word), hidden |-> prev, raw |-> <<>>]
      [] name = "model" ->
            LET r == count_syllables(word, prev)
            IN  [est |-> [tag |-> "FromModel", n |-> r.ret], hidden |-> r.hidden, raw |-> r.raw]

\* Mutant: every counter is queried and the last definite answer wins.
RECURSIVE LastDefiniteFrom(_, _, _, _)
LastDefiniteFrom(cs, i, word, acc) ==
    IF i > Len(cs) THEN acc
    ELSE LET q == Query(cs[i], word, acc.hidden)
         IN  LastDefiniteFrom(cs, i + 1, word,
                 [est       |-> IF q.est.tag # "Unknown" THEN q.est ELSE acc.est,
                  consulted |-> Append(acc.consulted, i),
                  hidden    |-> q.hidden,
                  raw       |-> acc.raw \o q.raw])
composite_last_definite(cs, word, prev) ==
    LastDefiniteFrom(cs, 1, word,
                     [est |-> Unknown, consulted |-> <<>>, hidden |-> prev, raw |-> <<>>])

\* Mutant: when every counter is at a loss, one syllable is guessed.
RECURSIVE GuessingFrom(_, _, _, _)
GuessingFrom(cs, i, word, acc) ==
    IF i > Len(cs) THEN [acc EXCEPT !.est = [tag |-> "FromModel", n |-> 1]]
    ELSE LET q    == Query(cs[i], word, acc.hidden)
             next == [est       |-> q.est,
                      consulted |-> Append(acc.consulted, i),
                      hidden    |-> q.hidden,
                      raw       |-> acc.raw \o q.raw]
         IN  IF q.est.tag # "Unknown" THEN next ELSE GuessingFrom(cs, i + 1, word, next)
composite_guessing(cs, word, prev) ==
    GuessingFrom(cs, 1, word,
                 [est |-> Unknown, consulted |-> <<>>, hidden |-> prev, raw |-> <<>>])

\* CompositeSyllableCounter.count_word: the counters in order, the first
\* definite answer returned at once, Unknown when none has one.
RECURSIVE CompositeFrom(_, _, _, _)
CompositeFrom(cs, i, word, acc) ==
    IF i > Len(cs) THEN acc
    ELSE LET q    == Query(cs[i], word, acc.hidden)
             next == [est       |-> q.est,
                      consulted |-> Append(acc.consulted, i),
                      hidden    |-> q.hidden,
                      raw       |-> acc.raw \o q.raw]
         IN  IF q.est.tag # "Unknown" THEN next ELSE CompositeFrom(cs, i + 1, word, next)
composite_count_word(cs, word, prev) ==
    CompositeFrom(cs, 1, word,
                  [est |-> Unknown, consulted |-> <<>>, hidden |-> prev, raw |-> <<>>])

\* CompositeSyllableCounter([csc, msc]): dictionary first, model last.
ConventionalCounters == <<"dictionary", "model">>
\* Lists a composite counter may be built from.
CounterLists ==
    { ConventionalCounters,
      <<"extra", "dictionary", "model">>,
      <<"extra", "dictionary">>,
      <<"model", "dictionary">> }

(***************************************************************************)
(* The state machine                                                       *)
(***************************************************************************)
\* The threads that share one counter.
Threads == {"t1", "t2"}

\* The parts of the state that belong to the other components, at rest.
IdleCall ==
    [pc |-> "idle", op |-> "none", arg |-> <<>>, words |-> <<>>, word |-> <<>>,
     i |-> 0, rets |-> <<>>, overlapped |-> FALSE]
ExportNotStarted ==
    [pc |-> "not_started", written |-> {}, converted |-> FALSE, checked |-> FALSE,
     onnxruntime |-> FALSE, k |-> 0, j |-> 0, max_diff |-> 0, diffs |-> <<>>,
     verdict |-> "none", result |-> "none"]
ExampleNotRun == [pc |-> "none", raw |-> 0, python |-> -1, js |-> -1, csharp |-> -1]
InitElsewhere ==
    /\ calls = [t \in Threads |-> IdleCall]
    /\ buf = [t \in Threads |-> <<>>]
    /\ export = ExportNotStarted
    /\ example = ExampleNotRun

Init ==
    /\ InitElsewhere
    /\ chars \in Alphabets
    /\ max_len = MaxLen
    /\ char_to_idx = CharToIdx(chars)
    /\ session \in WeightSets
    /\ hidden = ZeroHidden
    /\ before = ZeroHidden
    /\ pc = "idle"
    /\ op = "none"
    /\ arg = <<>>
    /\ ret = 0
    /\ raw = <<>>
    /\ trace = <<>>
    /\ counters = ConventionalCounters
    /\ consulted = <<>>

\* The fields of the SyllableCounter object, and the rest of the state a
\* method of it cannot reach.
Fields == <<chars, max_len, char_to_idx, session>>
Others == <<counters, calls, buf, export, example>>

\* Mutant: the index map is a defaultdict, so looking up an unknown
\* character of an encoded word inserts it.
self_after_inserting(words) ==
    LET unknown == {c \in UNION {{Normalize(words[k])[i] : i \in 1..Len(Normalize(words[k]))}
                                   : k \in 1..Len(words)} : c \notin DOMAIN char_to_idx}
    IN  [chars       |-> chars,
         max_len     |-> max_len,
         char_to_idx |-> [c \in DOMAIN char_to_idx \cup unknown |->
                             IF c \in DOMAIN char_to_idx THEN char_to_idx[c] ELSE 1],
         session     |-> session]

\* The object after its methods have encoded the given words: no method
\* assigns to self, and "char in self.char_to_idx" and
\* "self.char_to_idx[char]" only read.
self_after(words) ==
    [chars |-> chars, max_len |-> max_len, char_to_idx |-> char_to_idx, session |-> session]

SelfBecomes(s) ==
    /\ chars' = s.chars
    /\ max_len' = s.max_len
    /\ char_to_idx' = s.char_to_idx
    /\ session' = s.session

\* counter.encode_word(word)
EncodeWord(word) ==
    /\ pc = "idle"
    /\ pc' = "done"
    /\ op' = "encode_word"
    /\ arg' = word
    /\ ret' = encode_word(word)
    /\ raw' = <<>>
    /\ trace' = <<"encode_word">>
    /\ before' = hidden
    /\ SelfBecomes(self_after(<<word>>))
    /\ UNCHANGED <<Others, hidden, consulted>>

\* counter.count_syllables(word)
CountSyllables(word) ==
    /\ pc = "idle"
    /\ LET r == count_syllables(word, hidden)
       IN  /\ ret' = r.ret
           /\ raw' = r.raw
           /\ trace' = r.trace
           /\ hidden' = r.hidden
    /\ pc' = "done"
    /\ op' = "count_syllables"
    /\ arg' = word
    /\ before' = hidden
    /\ SelfBecomes(self_after(IF is_blank(word) THEN <<>> ELSE <<word>>))
    /\ UNCHANGED <<Others, consulted>>

\* counter.count_text(text)
CountText(text) ==
    /\ pc = "idle"
    /\ LET r == count_text(text, hidden)
       IN  /\ ret' = r.ret
           /\ raw' = r.raw
           /\ trace' = r.trace
           /\ hidden' = r.hidden
    /\ pc' = "done"
    /\ op' = "count_text"
    /\ arg' = text
    /\ before' = hidden
    /\ SelfBecomes(self_after(split(text)))
    /\ UNCHANGED <<Others, consulted>>

\* The caller takes the result; the next call may start.
Return ==
    /\ pc = "done"
    /\ pc' = "idle"
    /\ op' = "none"
    /\ arg' = <<>>
    /\ ret' = 0
    /\ raw' = <<>>
    /\ trace' = <<>>
    /\ consulted' = <<>>
    /\ before' = hidden
    /\ UNCHANGED <<Fields, Others, hidden>>

\* comp.count_syllables(word) on the composite counter
CompositeCountWord(word) ==
    /\ pc = "idle"
    /\ LET r == composite_count_word(counters, word, hidden)
       IN  /\ ret' = r.est
           /\ raw' = r.raw
           /\ consulted' = r.consulted
           /\ hidden' = r.hidden
    /\ pc' = "done"
    /\ op' = "composite.count_word"
    /\ arg' = word
    /\ trace' = <<>>
    /\ before' = hidden
    /\ UNCHANGED <<Fields, Others>>

\* The model counter: count_syllables and count_text.
Next ==
    \/ \E word \in CountWords : CountSyllables(word)
    \/ \E text \in Texts : CountText(text)
    \/ Return

Spec == Init /\ [][Next]_vars

\* The encoder alone.
NextEncode ==
    \/ \E word \in Words : EncodeWord(word)
    \/ Return

SpecEncode == Init /\ [][NextEncode]_vars

\* The composite counter, over any of the counter lists.
InitComposite ==
    /\ InitElsewhere
    /\ chars \in Alphabets
    /\ max_len = MaxLen
    /\ char_to_idx = CharToIdx(chars)
    /\ session \in WeightSets
    /\ hidden = ZeroHidden
    /\ before = ZeroHidden
    /\ pc = "idle"
    /\ op = "none"
    /\ arg = <<>>
    /\ ret = 0
    /\ raw = <<>>
    /\ trace = <<>>
    /\ counters \in CounterLists
    /\ consulted = <<>>

NextComposite ==
    \/ \E word \in CompositeWords : CompositeCountWord(word)
    \/ Return

SpecComposite == InitComposite /\ [][NextComposite]_vars

\* Every method of the counter, on words and texts that hold characters
\* outside the alphabet and blanks.
FrameTexts == SeqsUpTo({"a", " ", "1"}, MaxLen)
NextFrame ==
    \/ \E word \in CompositeWords : EncodeWord(word)
    \/ \E word \in CompositeWords : CountSyllables(word)
    \/ \E text \in FrameTexts : CountText(text)
    \/ Return

SpecFrame == Init /\ [][NextFrame]_vars

(***************************************************************************)
(* Concurrent calls on one shared counter                                  *)
(***************************************************************************)
\* What the threads pass to count_syllables and to count_text.
ConcWords == {<<>>, <<" ">>, <<"a">>, <<"A", "i">>, <<"i", "1">>}
ConcTexts == {<<" ">>, <<"i">>, <<"a", " ", "i">>}

\* The variables of the one-call-at-a-time view, which threads leave alone.
Sequential == <<hidden, before, pc, op, arg, ret, raw, trace, consulted>>

\* Mutant: the buffer is kept on the object and reused by every call
\* (self.encoded.fill(0) instead of a fresh np.zeros).
buffer_shared(t) == "t1"

\* The array that "encoded = np.zeros(...)" binds in the call of thread t:
\* a new one for each call.
buffer_of(t) == t

\* Every other thread that is inside a call has been overlapped by a step.
Overlap(cs, t) ==
    [u \in Threads |->
        IF u # t /\ cs[u].pc \in {"encode", "loop"}
        THEN [cs[u] EXCEPT !.overlapped = TRUE] ELSE cs[u]]

\* Thread t enters count_syllables(word): the blank guard returns 0 at once.
CallCountSyllables(t, word) ==
    /\ calls[t].pc = "idle"
    /\ calls' = [Overlap(calls, t) EXCEPT ![t] =
                    [IdleCall EXCEPT !.pc = IF is_blank(word) THEN "done" ELSE "encode",
                                     !.op = "count_syllables",
                                     !.arg = word,
                                     !.words = IF is_blank(word) THEN <<>> ELSE <<word>>,
                                     !.rets = IF is_blank(word) THEN <<0>> ELSE <<>>]]
    /\ UNCHANGED <<Fields, Sequential, counters, buf, export, example>>

\* Thread t enters count_text(text): words = text.split().
CallCountText(t, text) ==
    /\ calls[t].pc = "idle"
    /\ calls' = [Overlap(calls, t) EXCEPT ![t] =
                    [IdleCall EXCEPT !.pc = IF split(text) = <<>> THEN "done" ELSE "encode",
                                     !.op = "count_text",
                                     !.arg = text,
                                     !.words = split(text)]]
    /\ UNCHANGED <<Fields, Sequential, counters, buf, export, example>>

\* encode_word, up to the loop: normalise the word, allocate the zero tensor.
Allocate(t) ==
    /\ calls[t].pc = "encode"
    /\ calls' = [Overlap(calls, t) EXCEPT ![t].pc = "loop",
                                          ![t].word = Normalize(Head(calls[t].words)),
                                          ![t].i = 1]
    /\ buf' = [buf EXCEPT ![buffer_of(t)] = Zeros]
    /\ UNCHANGED <<Fields, Sequential, counters, export, example>>

\* One iteration of "for i, char in enumerate(word)".
LoopStep(t) ==
    /\ calls[t].pc = "loop"
    /\ calls[t].i <= Len(calls[t].word)
    /\ calls' = [Overlap(calls, t) EXCEPT ![t].i = calls[t].i + 1]
    /\ buf' = [buf EXCEPT ![buffer_of(t)] =
                  SetOneHot(buf[buffer_of(t)], calls[t].i, calls[t].word[calls[t].i])]
    /\ SelfBecomes(self_after(<<calls[t].word>>))
    /\ UNCHANGED <<Sequential, counters, export, example>>

\* The loop is over: session.run on the tensor, rounding, and on to the
\* next word of the text or to the return.
RunSession(t) ==
    /\ calls[t].pc = "loop"
    /\ calls[t].i > Len(calls[t].word)
    /\ LET result == session_run(session, buf[buffer_of(t)], ZeroHidden)
           rest   == Tail(calls[t].words)
       IN  calls' = [Overlap(calls, t) EXCEPT
                        ![t].rets = Append(calls[t].rets, postprocess(result.y)),
                        ![t].words = rest,
                        ![t].word = <<>>,
                        ![t].i = 0,
                        ![t].pc = IF rest = <<>> THEN "done" ELSE "encode"]
    /\ UNCHANGED <<Fields, Sequential, counters, buf, export, example>>

\* The caller of thread t takes the result; its buffer is garbage.
ReturnTo(t) ==
    /\ calls[t].pc = "done"
    /\ calls' = [calls EXCEPT ![t] = IdleCall]
    /\ buf' = [buf EXCEPT ![buffer_of(t)] = <<>>]
    /\ UNCHANGED <<Fields, Sequential, counters, export, example>>

NextConcurrent ==
    \E t \in Threads :
        \/ \E word \in ConcWords : CallCountSyllables(t, word)
        \/ \E text \in ConcTexts : CallCountText(t, text)
        \/ Allocate(t)
        \/ LoopStep(t)
        \/ RunSession(t)
        \/ ReturnTo(t)

SpecConcurrent == Init /\ [][NextConcurrent]_vars

(***************************************************************************)
(* export_to_onnx                                                          *)
(***************************************************************************)
test_words == <<"hello", "world", "python", "elixir">>
examples == <<"python_example.py", "javascript_example.js", "csharp_example.cs">>

\* |tf_output - onnx_output| for one word, in millionths.
DiffValues == {0, 9, 10, 999, 1000, 5000}

\* The variables export_to_onnx does not touch.
NotExport == <<Fields, Sequential, counters, calls, buf, example>>

\* Mutant: the converted model is not handed to onnx.checker.check_model.
next_step_unchecked(p) ==
    CASE p = "start"       -> "import"
      [] p = "import"      -> "convert"
      [] p = "convert"     -> "consistency"
      [] p = "check"       -> "consistency"
      [] p = "consistency" -> "metadata"
      [] p = "metadata"    -> "examples"
      [] p = "examples"    -> "readme"
      [] p = "readme"      -> "report"

\* Where control goes when the statement at p completes normally: the order
\* of the statements in the try block.
next_step(p) ==
    CASE p = "start"       -> "import"
      [] p = "import"      -> "convert"
      [] p = "convert"     -> "check"
      [] p = "check"       -> "consistency"
      [] p = "consistency" -> "metadata"
      [] p = "metadata"    -> "examples"
      [] p = "examples"    -> "readme"
      [] p = "readme"      -> "report"

\* Mutant: a significant difference aborts the export.
after_verdict_strict(v) == IF v = "differ" THEN "raised" ELSE next_step("consistency")

\* test_onnx_consistency returns None whatever it printed.
after_verdict(v) == next_step("consistency")

\* The message test_onnx_consistency prints for a maximum difference.
verdict_of(max_diff) ==
    IF max_diff < 10 THEN "perfect"
    ELSE IF max_diff < 1000 THEN "well"
    ELSE "differ"

\* The result and position of a run that stopped at p.
Stopped(p) == IF p = "raised" THEN "raised" ELSE "none"

\* mkdir, load the Keras model, predict the test words.
StartExport ==
    /\ export.pc = "not_started"
    /\ export' = [export EXCEPT !.pc = next_step("start")]
    /\ UNCHANGED NotExport

\* import onnx; import tf2onnx.  An ImportError goes to the except clause.
ImportOnnx(onnx_installed, tf2onnx_installed) ==
    /\ export.pc = "import"
    /\ export' = IF onnx_installed /\ tf2onnx_installed
                 THEN [export EXCEPT !.pc = next_step("import")]
                 ELSE [export EXCEPT !.pc = "returned", !.result = "False"]
    /\ UNCHANGED NotExport

\* tf2onnx.convert.from_keras(..., output_path=...): writes the model file,
\* or raises an error that is not an ImportError.
Convert(ok) ==
    /\ export.pc = "convert"
    /\ export' = IF ok
                 THEN [export EXCEPT !.pc = next_step("convert"),
                                     !.converted = TRUE,
                                     !.written = @ \cup {"syllable_model.onnx"}]
                 ELSE [export EXCEPT !.pc = "raised", !.result = "raised"]
    /\ UNCHANGED NotExport

\* onnx.checker.check_model(onnx_model): raises when the model is invalid.
CheckModel(valid) ==
    /\ export.pc = "check"
    /\ export' = IF valid
                 THEN [export EXCEPT !.pc = next_step("check"), !.checked = TRUE]
                 ELSE [export EXCEPT !.pc = "raised", !.result = "raised"]
    /\ UNCHANGED NotExport

\* test_onnx_consistency: import onnxruntime; without it the test is skipped.
ConsistencyImport(installed) ==
    /\ export.pc = "consistency"
    /\ export.k = 0
    /\ export' = IF installed
                 THEN [export EXCEPT !.onnxruntime = TRUE, !.k = 1, !.max_diff = 0]
                 ELSE [export EXCEPT !.verdict = "skipped", !.pc = after_verdict("skipped")]
    /\ UNCHANGED NotExport

\* One iteration of the loop over test_words.
Compare(diff) ==
    /\ export.pc = "consistency"
    /\ export.k \in 1..Len(test_words)
    /\ export' = [export EXCEPT !.diffs = Append(@, diff),
                                !.max_diff = Max(@, diff),
                                !.k = @ + 1]
    /\ UNCHANGED NotExport

\* The if / elif / else on max_diff, and the return to export_to_onnx.
Verdict ==
    /\ export.pc = "consistency"
    /\ export.k > Len(test_words)
    /\ LET v == verdict_of(export.max_diff)
       IN  export' = [export EXCEPT !.verdict = v,
                                   !.pc = after_verdict(v),
                                   !.result = Stopped(after_verdict(v))]
    /\ UNCHANGED NotExport

\* save_metadata(output_dir, char_config, model)
SaveMetadata ==
    /\ export.pc = "metadata"
    /\ export' = [export EXCEPT !.written = @ \cup {"model_metadata.json"},
                                !.pc = next_step("metadata"),
                                !.j = 1]
    /\ UNCHANGED NotExport

\* create_usage_examples: one iteration of the loop that saves the examples.
WriteExample ==
    /\ export.pc = "examples"
    /\ export.j <= Len(examples)
    /\ export' = [export EXCEPT !.written = @ \cup {examples[export.j]}, !.j = @ + 1]
    /\ UNCHANGED NotExport

\* create_usage_examples: README.md, after the loop.
WriteReadme ==
    /\ export.pc = "examples"
    /\ export.j > Len(examples)
    /\ export' = [export EXCEPT !.written = @ \cup {"README.md"},
                                !.pc = next_step("readme")]
    /\ UNCHANGED NotExport

\* The report of the files, and return True.
ReturnTrue ==
    /\ export.pc = "report"
    /\ export' = [export EXCEPT !.pc = "returned", !.result = "True"]
    /\ UNCHANGED NotExport

NextExport ==
    \/ StartExport
    \/ \E onnx_installed, tf2onnx_installed \in BOOLEAN :
           ImportOnnx(onnx_installed, tf2onnx_installed)
    \/ \E ok \in BOOLEAN : Convert(ok)
    \/ \E valid \in BOOLEAN : CheckModel(valid)
    \/ \E installed \in BOOLEAN : ConsistencyImport(installed)
    \/ \E diff \in DiffValues : Compare(diff)
    \/ Verdict
    \/ SaveMetadata
    \/ WriteExample
    \/ WriteReadme
    \/ ReturnTrue

SpecExport == Init /\ [][NextExport]_vars

(***************************************************************************)
(* The usage examples written by create_usage_examples                     *)
(***************************************************************************)
\* JavaScript Math.round: the nearest integer, ties towards +infinity.
Math_round(y) == (y + 2) \div 4

\* C# Math.Round(double): the nearest integer, ties to the even one.
Math_Round(y) ==
    LET q == y \div 4
        r == y % 4
    IN  IF r < 2 THEN q
        ELSE IF r > 2 THEN q + 1
        ELSE IF q % 2 = 0 THEN q ELSE q + 1

\* python_example.py: max(1, round(float(result[0][0][0])))
python_example(y) == Max(1, round(y))
\* javascript_example.js: Math.max(1, Math.round(output.data[0]))
js_example(y) == Max(1, Math_round(y))
\* csharp_example.cs: Math.Max(1, (int)Math.Round(output))
csharp_example(y) == Max(1, Math_Round(y))

NotExample == <<Fields, Sequential, counters, calls, buf, export>>

\* The same non-empty word is given to the three examples; the model
\* answers it with the raw scalar y (in quarters).
FeedRaw(y) ==
    /\ example.pc = "none"
    /\ example' = [example EXCEPT !.pc = "fed", !.raw = y]
    /\ UNCHANGED NotExample

RunPython ==
    /\ example.pc = "fed"
    /\ example.python = -1
    /\ example' = [example EXCEPT !.python = python_example(example.raw)]
    /\ UNCHANGED NotExample

RunJavaScript ==
    /\ example.pc = "fed"
    /\ example.js = -1
    /\ example' = [example EXCEPT !.js = js_example(example.raw)]
    /\ UNCHANGED NotExample

RunCSharp ==
    /\ example.pc = "fed"
    /\ example.csharp = -1
    /\ example' = [example EXCEPT !.csharp = csharp_example(example.raw)]
    /\ UNCHANGED NotExample

NextExamples ==
    \/ \E y \in -RawMax..RawMax : FeedRaw(y)
    \/ RunPython
    \/ RunJavaScript
    \/ RunCSharp

SpecExamples == Init /\ [][NextExamples]_vars

\* Construction: before SyllableCounter(...) has run there is no object.
InitLoad ==
    /\ InitElsewhere
    /\ chars = <<>>
    /\ max_len = 0
    /\ char_to_idx = CharToIdx(<<>>)
    /\ session = <<>>
    /\ hidden = ZeroHidden
    /\ before = ZeroHidden
    /\ pc = "new"
    /\ op = "none"
    /\ arg = <<>>
    /\ ret = 0
    /\ raw = <<>>
    /\ trace = <<>>
    /\ counters = ConventionalCounters
    /\ consulted = <<>>

\* counter = SyllableCounter(model_path, metadata_path)
Construct(alphabet, maxlen, model) ==
    /\ pc = "new"
    /\ pc' = "idle"
    /\ SelfBecomes(construct(alphabet, maxlen, model))
    /\ UNCHANGED <<Others, hidden, before, op, arg, ret, raw, trace, consulted>>

NextLoad ==
    \/ \E alphabet \in ConfigAlphabets, maxlen \in ConfigMaxLens, model \in WeightSets :
           Construct(alphabet, maxlen, model)
    \/ \E word \in CompositeWords : EncodeWord(word)
    \/ Return

SpecLoad == InitLoad /\ [][NextLoad]_vars

(***************************************************************************)
(* Claims about encode_word                                                *)
(***************************************************************************)
RowIsZero(row) == \A j \in DOMAIN row : row[j] = 0
OnesIn(row) == Cardinality({j \in DOMAIN row : row[j] = 1})
Encoded == pc = "done" /\ op = "encode_word"

WellFormed(t) ==
    /\ DOMAIN t = 1..max_len
    /\ \A i \in DOMAIN t :
        /\ DOMAIN t[i] = 1..Len(chars)
        /\ \A j \in DOMAIN t[i] : t[i][j] \in {0, 1}
        /\ OnesIn(t[i]) <= 1

\* C1 (as stated): the tensor of encode_word(w) holds only 0.0 and 1.0, every
\* row has at most one 1.0, and every row with (0-based) index
\* >= min(len(w), maxlen) is all zero, len(w) being the length of the input.
C1_Original ==
    Encoded =>
        /\ WellFormed(ret)
        /\ \A i \in 1..max_len : i > Min(Len(arg), max_len) => RowIsZero(ret[i])

\* C1 (amended): the tensor of encode_word(w) holds only 0.0 and 1.0, every
\* row has at most one 1.0, and every row with (0-based) index
\* >= min(len(w.lower()), maxlen) is all zero: the padding starts after the
\* lowercased word, which can be longer than w.
C1_EncodingInvariant ==
    Encoded =>
        /\ WellFormed(ret)
        /\ \A i \in 1..max_len : i > Min(Len(Lower(arg)), max_len) => RowIsZero(ret[i])

\* C1 witness: a word that lowercasing lengthens was encoded, a row holds a
\* 1.0 and a padding row exists.
C1_Witness ==
    /\ Encoded
    /\ Len(Lower(arg)) > Len(arg)
    /\ Len(Lower(arg)) < max_len
    /\ \E i \in 1..max_len : OnesIn(ret[i]) = 1

\* A character of the input that no alphabet character stands for.
OutsideAlphabet(c) ==
    \A k \in DOMAIN LowerChar(c) : LowerChar(c)[k] \notin DOMAIN char_to_idx

\* C10 (as stated): a character outside the alphabet at position i < maxlen
\* of the word leaves row i of the encoding all zero.
C10_Original ==
    Encoded =>
        \A i \in 1..Min(Len(arg), max_len) :
            OutsideAlphabet(arg[i]) => RowIsZero(ret[i])

\* C10 (amended): positions are those of the lowercased, truncated word: a
\* character outside the alphabet at position i leaves row i all zero, and
\* every other position i holds exactly the one-hot row of its own
\* character, so unknown characters are neither skipped nor compacted.
C10_UnknownCharacter ==
    Encoded =>
        LET lw == Prefix(Lower(arg), max_len)
        IN  \A i \in 1..Len(lw) :
                IF lw[i] \in {chars[j] : j \in 1..Len(chars)}
                THEN /\ OnesIn(ret[i]) = 1
                     /\ chars[CHOOSE j \in 1..Len(chars) : ret[i][j] = 1] = lw[i]
                ELSE RowIsZero(ret[i])

\* C10 witness: an unknown character sits before a known one, and the known
\* one is encoded in its own row.
C10_Witness ==
    /\ Encoded
    /\ arg = <<"a", "1", "A">>
    /\ RowIsZero(ret[2])
    /\ OnesIn(ret[1]) = 1 /\ OnesIn(ret[3]) = 1

(***************************************************************************)
(* Claims about count_syllables                                            *)
(***************************************************************************)
Counted == pc = "done" /\ op = "count_syllables"
AllSpace(w) == \A i \in 1..Len(w) : w[i] = " "

\* What a counter that has never run anything returns for w.
FreshCount(w) == count_syllables(w, ZeroHidden).ret

\* C2 (as stated): for all words w with length > 0, count_word(w) >= 1.
C2_Original == Counted /\ Len(arg) > 0 => ret >= 1

\* C2 (amended): for all words w with at least one non-whitespace character,
\* count_word(w) >= 1, whatever raw scalar the network produces (zero and
\* negative values included); a whitespace-only word has length > 0 and
\* counts 0.
C2_AtLeastOne == Counted /\ ~AllSpace(arg) => ret >= 1

\* C2 witness: the network answered a value <= 0 and the count is 1.
C2_Witness == Counted /\ ~AllSpace(arg) /\ raw # <<>> /\ raw[1] <= 0 /\ ret = 1

\* C3: for an empty or whitespace-only word the counter returns 0 and
\* executes no encoding and no inference step (the session is not touched).
C3_BlankShortCircuit ==
    Counted /\ AllSpace(arg) => ret = 0 /\ trace = <<>> /\ raw = <<>> /\ hidden = before

\* C3 witness: a whitespace-only word of two characters was counted.
C3_Witness == Counted /\ arg = <<" ", " ">> /\ ret = 0

\* C4 (as stated): for every word w longer than maxlen,
\* count_word(w) = count_word(w[:maxlen]).
C4_Original ==
    Counted /\ Len(arg) > max_len => ret = FreshCount(Prefix(arg, max_len))

\* C4 (amended): for every word w longer than maxlen whose first maxlen
\* characters are not all whitespace, or that is whitespace only,
\* count_word(w) = count_word(w[:maxlen]).
C4_Truncation ==
    Counted /\ Len(arg) > max_len /\ (AllSpace(arg) \/ ~AllSpace(Prefix(arg, max_len)))
        => ret = FreshCount(Prefix(arg, max_len))

\* C4 witness: a word longer than maxlen, lengthened by lowercasing, went
\* through the network.
C4_Witness ==
    /\ Counted
    /\ Len(arg) > max_len
    /\ Len(Lower(arg)) > Len(arg)
    /\ trace = <<"encode_word", "session.run">>
    /\ arg[Len(arg)] = "a"

CountedText == pc = "done" /\ op = "count_text"

\* Positions where a whitespace-delimited token of t starts.
TokenStarts(t) == {i \in 1..Len(t) : t[i] # " " /\ (i = 1 \/ t[i - 1] = " ")}
\* The k-th of them, in input order.
KthStart(t, k) ==
    CHOOSE s \in TokenStarts(t) : Cardinality({x \in TokenStarts(t) : x < s}) = k - 1
\* The token of t that starts at s: the longest run without whitespace.
TokenAt(t, s) ==
    LET e == CHOOSE e \in s..Len(t) :
                 /\ \A k \in s..e : t[k] # " "
                 /\ (e = Len(t) \/ t[e + 1] = " ")
    IN  SubSeq(t, s, e)

\* C7: count_text(text) returns exactly one count per non-empty
\* whitespace-delimited token, in input order, the i-th being
\* count_word of the i-th token; leading, trailing and repeated whitespace
\* produce no entries.
C7_OneCountPerToken ==
    CountedText =>
        /\ Len(ret) = Cardinality(TokenStarts(arg))
        /\ \A k \in 1..Len(ret) : ret[k] = FreshCount(TokenAt(arg, KthStart(arg, k)))

\* C7 witness: a text with leading, repeated and trailing whitespace around
\* two tokens gave two counts.
C7_Witness ==
    /\ CountedText
    /\ arg = <<" ", "a", " ", " ", "a", " ">>
    /\ Len(ret) = 2

(***************************************************************************)
(* Claims about the composite counter                                      *)
(***************************************************************************)
Composed == pc = "done" /\ op = "composite.count_word"

\* The answer counter number i of the list gives for w, asked on its own.
AnswerOf(i, w) == Query(counters[i], w, ZeroHidden).est

\* C5: in the composite built as [dictionary, model], a word the dictionary
\* has an entry for gets exactly that entry, whatever the model predicts.
C5_DictionaryPrecedence ==
    Composed /\ counters = <<"dictionary", "model">> /\ Lower(arg) \in DOMAIN DictionaryTable
        => ret = [tag |-> "FromDictionary", n |-> DictionaryTable[Lower(arg)]]

\* C5 witness: an upper-case word of the dictionary was counted, and the
\* model alone predicts another count for it.
C5_Witness ==
    /\ Composed
    /\ counters = <<"dictionary", "model">>
    /\ arg = <<"A">>
    /\ ret.n = 1
    /\ FreshCount(arg) # 1

\* C6: the composite queries its counters in list order, returns the answer
\* of the first counter with a definite one without querying any later
\* counter, and returns Unknown exactly when every counter answered Unknown.
C6_FirstDefinite ==
    Composed =>
        LET n == Len(consulted)
        IN  /\ n <= Len(counters)
            /\ \A i \in 1..n : consulted[i] = i
            /\ \A i \in 1..(n - 1) : AnswerOf(i, arg).tag = "Unknown"
            /\ IF ret.tag = "Unknown"
               THEN /\ n = Len(counters)
                    /\ ret = Unknown
                    /\ \A i \in 1..Len(counters) : AnswerOf(i, arg).tag = "Unknown"
               ELSE /\ n >= 1
                    /\ ret = AnswerOf(n, arg)

\* C6 witness: the first counter was at a loss, the second answered, and the
\* third was not queried.
C6_Witness ==
    /\ Composed
    /\ Len(counters) = 3
    /\ consulted = <<1, 2>>
    /\ ret.tag = "FromDictionary"

\* C6 second witness: every counter was at a loss and Unknown came back.
C6_WitnessUnknown == Composed /\ consulted = <<1, 2>> /\ ret = Unknown

(***************************************************************************)
(* Claims about construction and the object's fields                       *)
(***************************************************************************)
\* The size of the step vectors the network was built for.
InputDim(model) == Len(model.fwd.k)
NoDuplicates(cs) == \A i, j \in 1..Len(cs) : cs[i] = cs[j] => i = j

\* C11: a counter never comes into existence with an alphabet that has a
\* duplicate character or whose size, or whose maxlen, is inconsistent
\* with the architecture: initialization with such a configuration fails.
C11_Original ==
    pc # "new" =>
        /\ NoDuplicates(chars)
        /\ Len(chars) = InputDim(session)
        /\ max_len = MaxLen

\* C13: after initialization, every encode_word, count_syllables and
\* count_text call leaves the alphabet, maxlen, the character-to-index map
\* and the weights unchanged.
C13_FieldsUnchanged == [][Fields' = Fields]_vars

\* C13 witness: a count_text call that met a character outside the
\* alphabet has returned the counts of its two tokens.
C13_Witness ==
    /\ pc = "done"
    /\ op = "count_text"
    /\ arg = <<"1", " ", "a">>
    /\ Len(ret) = 2
    /\ "1" \notin DOMAIN char_to_idx

\* C14: case-insensitivity: for every word w the encoder produces the same
\* tensor for w and for lowercase(w), every dictionary looks up the same
\* entry for both, and so count_word(w) is what count_word(lowercase(w))
\* returns.
C14_CaseInsensitive ==
    Composed =>
        /\ encode_word(arg) = encode_word(Lower(arg))
        /\ \A table \in {DictionaryTable, ExtraTable} :
              dictionary_count(table, arg) = dictionary_count(table, Lower(arg))
        /\ ret = composite_count_word(counters, Lower(arg), before).est

\* C14 witness: a word with an upper-case letter that no dictionary of the
\* list knows was counted by the model.
C14_Witness ==
    /\ Composed
    /\ arg = <<"A", "1">>
    /\ Lower(arg) # arg
    /\ counters = ConventionalCounters
    /\ ret.tag = "FromModel"

(***************************************************************************)
(* Claims about the network                                                *)
(***************************************************************************)
\* The hidden state of a cell with weights w that started from the zero
\* state and consumed steps 1..i of xs.
RECURSIVE FwdAfter(_, _, _)
FwdAfter(w, xs, i) == IF i = 0 THEN 0 ELSE Cell(w, FwdAfter(w, xs, i - 1), xs[i])

\* The same for a cell that consumed steps Len(xs) down to i.
RECURSIVE BwdAfter(_, _, _)
BwdAfter(w, xs, i) == IF i > Len(xs) THEN 0 ELSE Cell(w, BwdAfter(w, xs, i + 1), xs[i])

\* The bidirectional layer's output in the run of the call that returned.
LayerOutput == Bidirectional(session, encode_word(arg), before)

\* C16: the bidirectional layer's output at every time index i is the
\* forward cell's state after steps up to i followed by the backward cell's
\* state after steps from the last down to i, both passes starting from
\* zero with their own weights; the final layer keeps only its state after
\* the last step, from which the raw scalar is computed.
C16_LayerSemantics ==
    Counted /\ raw # <<>> =>
        LET xs == encode_word(arg)
            bi == LayerOutput
        IN  /\ DOMAIN bi = 1..max_len
            /\ \A i \in 1..max_len :
                  bi[i] = <<FwdAfter(session.fwd, xs, i), BwdAfter(session.bwd, xs, i)>>
            /\ hidden.fin = FwdAfter(session.fin, bi, max_len)
            /\ raw = <<hidden.fin * session.out.k + session.out.b>>

\* C16 witness: a run after an earlier one that left a non-zero state, in
\* which the two directions differ and the output changes along the word.
C16_Witness ==
    /\ Counted
    /\ raw # <<>>
    /\ before # ZeroHidden
    /\ LayerOutput[1][1] # LayerOutput[1][2]
    /\ LayerOutput[1] # LayerOutput[max_len]
    /\ session.fwd # session.bwd

(***************************************************************************)
(* Claims about concurrent calls                                           *)
(***************************************************************************)
\* What the call of thread t returns when nothing else runs.
Alone(t) ==
    IF calls[t].op = "count_syllables"
    THEN <<count_syllables(calls[t].arg, ZeroHidden).ret>>
    ELSE count_text(calls[t].arg, ZeroHidden).ret

\* C12: under every interleaving of the steps of concurrent count and
\* count_text calls on a shared counter, each call returns what it returns
\* when run alone; a call's encoding buffer holds exactly what that call
\* wrote so far, and the alphabet, the index map and the weights stay as
\* loaded.
C12_ConcurrentCalls ==
    /\ \A t \in Threads :
          /\ calls[t].pc = "done" => calls[t].rets = Alone(t)
          /\ calls[t].pc = "loop" =>
                buf[buffer_of(t)] =
                    EncodeLoop(Zeros, SubSeq(calls[t].word, 1, calls[t].i - 1), 1)
    /\ chars \in Alphabets
    /\ max_len = MaxLen
    /\ char_to_idx = CharToIdx(chars)
    /\ session \in WeightSets

\* C12 witness: a count_text call of two words has returned after steps of
\* another call ran in between, and that other call is still filling its
\* own buffer with a different word.
C12_Witness ==
    \E t, u \in Threads :
        /\ t # u
        /\ calls[t].pc = "done"
        /\ calls[t].overlapped
        /\ Len(calls[t].rets) = 2
        /\ calls[u].pc = "loop"
        /\ calls[u].overlapped
        /\ calls[u].i = 2
        /\ buf[buffer_of(u)] # Zeros

(***************************************************************************)
(* Claims about export_to_onnx                                             *)
(***************************************************************************)
Documentation ==
    {"model_metadata.json", "README.md"} \cup {examples[j] : j \in 1..Len(examples)}
AllFiles == Documentation \cup {"syllable_model.onnx"}

\* C17: the metadata, the usage examples and the README are written only
\* after the conversion has completed and the converted model has passed
\* the validity check; a run that returns False has written none of them
\* nor the model file; a run returns True only with all of them written.
C17_ExportOrder ==
    /\ export.written \cap Documentation # {} => export.converted /\ export.checked
    /\ export.result = "False" => export.written = {}
    /\ export.result = "True" => export.written = AllFiles

\* C17 witness: a successful run has returned True, all files written.
C17_Witness ==
    /\ export.pc = "returned"
    /\ export.result = "True"
    /\ export.checked
    /\ "README.md" \in export.written

\* C17 witness of the other case: the dependencies are missing and the run
\* has returned False.
C17_WitnessMissing ==
    /\ export.pc = "returned"
    /\ export.result = "False"

\* The largest of a sequence of differences, 0 for none.
RECURSIVE MaxOf(_)
MaxOf(ds) == IF ds = <<>> THEN 0 ELSE Max(Head(ds), MaxOf(Tail(ds)))

ConsistencyOver == export.verdict # "none"

\* C18: the consistency check reports exactly one of three verdicts, the
\* one that the largest difference over the test words calls for (below
\* 1e-5, below 1e-3, otherwise), or is skipped exactly when the ONNX
\* runtime is missing; whatever it reported, the export does not stop short
\* of writing the metadata and returning True.
C18_ConsistencyHarmless ==
    ConsistencyOver =>
        /\ export.verdict \in {"perfect", "well", "differ", "skipped"}
        /\ export.verdict = "skipped" <=> ~export.onnxruntime
        /\ export.onnxruntime =>
              /\ Len(export.diffs) = Len(test_words)
              /\ export.verdict = "perfect" <=> MaxOf(export.diffs) < 10
              /\ export.verdict = "well" <=>
                    MaxOf(export.diffs) >= 10 /\ MaxOf(export.diffs) < 1000
              /\ export.verdict = "differ" <=> MaxOf(export.diffs) >= 1000
        /\ export.pc \in {"metadata", "examples", "report", "returned"}
        /\ export.pc # "metadata" => "model_metadata.json" \in export.written
        /\ export.pc = "returned" => export.result = "True"

\* C18 witness: the models differed significantly, by exactly the upper
\* threshold, and the export returned True.
C18_Witness ==
    /\ export.pc = "returned"
    /\ export.result = "True"
    /\ export.verdict = "differ"
    /\ MaxOf(export.diffs) = 1000
    /\ "model_metadata.json" \in export.written

\* C18 witness of the skipped check.
C18_WitnessSkipped ==
    /\ export.pc = "returned"
    /\ export.result = "True"
    /\ export.verdict = "skipped"

(***************************************************************************)
(* Claims about the usage examples                                         *)
(***************************************************************************)
AllExamplesRan == example.python # -1 /\ example.js # -1 /\ example.csharp # -1

\* C19: for every raw scalar, exact half-integers and negative values
\* included, the Python, JavaScript and C# examples return the same
\* syllable count for a non-empty word.
C19_Original ==
    AllExamplesRan => example.python = example.js /\ example.js = example.csharp

====
